---- MODULE Spec2Model ----
(***************************************************************************)
(* Model of the Backstage onboarding automation                            *)
(* (src/backstage_automation.py, class BackstageAutomation).               *)
(*                                                                         *)
(* The GitHub objects the code talks to are modelled by what the code      *)
(* itself relies on: repo.get_contents(path) returns a (truthy) content    *)
(* object for an existing path and RAISES for a missing one (the code uses *)
(* try/except around it as its existence test, lines 497-503, 625-629,     *)
(* 829-835), and get_protection() RAISES for an unprotected branch (lines  *)
(* 454-458, "Branch might not have protection").  Any call may also raise  *)
(* because of a transport/auth failure.                                    *)
(*                                                                         *)
(* Text is modelled by TLA+ strings; substring tests, lower-casing, the    *)
(* CODEOWNERS regular expression and str.replace are computed character by *)
(* character.                                                              *)
(***************************************************************************)
EXTENDS Integers, Sequences, FiniteSets, TLC

VARIABLES
    op,             \* inspector: which method is applied to repo
    repo,           \* inspector: the repository handed to the method
    pc,             \* position: "call" before the method ran, "return" after
    result,         \* inspector: the value the method returned
    repos,          \* the organization's repositories, in enumeration order
    status_report,  \* self.status_report, the instance's list of detail lines
    reports,        \* the reports returned by generate_status_report so far
    seen,           \* history: the repositories each call enumerated
    marks,          \* history: Len(status_report) when each call started
    consulted,      \* history: the repositories whose pulls each call listed
    dirty,          \* a repository changed since the last report
    github,         \* the hosting service: branches, files, pulls, protection
    calls,          \* history: the collaborator calls made, in order
    local,          \* the local variables of the call in progress
    now             \* the last value read from the clock, in seconds

inspector_vars == <<op, repo, pc, result>>
status_vars == <<repos, status_report, reports, seen, marks, consulted, dirty>>
remote_vars == <<github, calls, local, now>>
vars == <<op, repo, pc, result,
          repos, status_report, reports, seen, marks, consulted, dirty,
          github, calls, local, now>>

\* The outcome of a call that raised an exception.
Raise == "raise"

-----------------------------------------------------------------------------
(* Text helpers *)

\* Python: min(a, b)
Min(a, b) == IF a <= b THEN a ELSE b

\* s[i] as a one-character string.
Char(s, i) == SubSeq(s, i, i)

\* Python: sub in s
Contains(s, sub) ==
    \E i \in 1..(Len(s) - Len(sub) + 1) : SubSeq(s, i, i + Len(sub) - 1) = sub

UpperChars == <<"A","B","C","D","E","F","G","H","I","J","K","L","M",
                "N","O","P","Q","R","S","T","U","V","W","X","Y","Z">>
LowerChars == <<"a","b","c","d","e","f","g","h","i","j","k","l","m",
                "n","o","p","q","r","s","t","u","v","w","x","y","z">>

LowerChar(c) ==
    IF \E k \in 1..Len(UpperChars) : UpperChars[k] = c
    THEN LowerChars[CHOOSE k \in 1..Len(UpperChars) : UpperChars[k] = c]
    ELSE c

\* Python: s.lower()
RECURSIVE Lower(_)
Lower(s) == IF s = "" THEN "" ELSE LowerChar(Char(s, 1)) \o Lower(SubSeq(s, 2, Len(s)))

Digits == {"0","1","2","3","4","5","6","7","8","9"}

\* The regular-expression class [\w-]
IsWordOrDash(c) ==
    \/ \E k \in 1..Len(UpperChars) : UpperChars[k] = c \/ LowerChars[k] = c
    \/ c \in Digits
    \/ c = "_"
    \/ c = "-"

\* Length of the longest run of [\w-] characters of s starting at position i.
RECURSIVE WordRun(_, _)
WordRun(s, i) ==
    IF i <= Len(s) /\ IsWordOrDash(Char(s, i)) THEN 1 + WordRun(s, i + 1) ELSE 0

\* Python: re.findall(r'@[\w-]+/[\w-]+', s), scanning from position i.
\* Both runs are greedy; "/" is outside the class, so no shorter first run can
\* match where the longest one does not.
RECURSIVE FindTeams(_, _)
FindTeams(s, i) ==
    IF i > Len(s) THEN <<>>
    ELSE IF Char(s, i) # "@" THEN FindTeams(s, i + 1)
    ELSE LET a == WordRun(s, i + 1)
             slash == i + 1 + a
             b == IF a >= 1 /\ slash <= Len(s) /\ Char(s, slash) = "/"
                  THEN WordRun(s, slash + 1) ELSE 0
         IN  IF b >= 1
             THEN <<SubSeq(s, i, slash + b)>> \o FindTeams(s, slash + b + 1)
             ELSE FindTeams(s, i + 1)

\* Python: s.replace('@', '')
RECURSIVE StripAt(_)
StripAt(s) ==
    IF s = "" THEN ""
    ELSE (IF Char(s, 1) = "@" THEN "" ELSE Char(s, 1)) \o StripAt(SubSeq(s, 2, Len(s)))

-----------------------------------------------------------------------------
(* Repository Inspector: _determine_component_type *)

ServiceIndicators == <<"Dockerfile", "docker-compose.yml", "k8s", "kubernetes">>
WebsiteIndicators == <<"package.json", "index.html", "public/index.html", "src/index.js">>
LibraryIndicators == <<"setup.py", "composer.json", "go.mod">>

Range(seq) == {seq[k] : k \in 1..Len(seq)}

IndicatorFiles ==
    Range(ServiceIndicators) \cup Range(WebsiteIndicators) \cup Range(LibraryIndicators)

\* repo.get_contents(path): the content object of an existing path; raises
\* UnknownObjectException for a missing path and GithubException when the
\* repository cannot be read.
get_contents(r, path) ==
    IF r.unreadable THEN Raise
    ELSE IF path \in r.files THEN "ContentFile"
    ELSE Raise

\* Python truthiness of what get_contents returned.
Truthy(x) == x = "ContentFile"

\* any(repo.get_contents(file) for file in paths): the generator is consumed
\* in order, stops at the first truthy element, and an exception raised by
\* an element leaves any().
RECURSIVE AnyContents(_, _)
AnyContents(r, paths) ==
    IF paths = <<>> THEN "False"
    ELSE LET c == get_contents(r, Head(paths))
         IN  IF c = Raise THEN Raise
             ELSE IF Truthy(c) THEN "True"
             ELSE AnyContents(r, Tail(paths))

_determine_component_type(r) ==
    LET s == AnyContents(r, ServiceIndicators)
        w == AnyContents(r, WebsiteIndicators)
        l == AnyContents(r, LibraryIndicators)
    IN  IF s = Raise THEN "service"            \* except Exception
        ELSE IF s = "True" THEN "service"
        ELSE IF w = Raise THEN "service"       \* except Exception
        ELSE IF w = "True" THEN "website"
        ELSE IF l = Raise THEN "service"       \* except Exception
        ELSE IF l = "True" THEN "library"
        ELSE "service"

TypeRepos == [files : SUBSET IndicatorFiles, unreadable : BOOLEAN]

-----------------------------------------------------------------------------
(* Repository Inspector: _determine_lifecycle *)

base_branch == "main"

ExperimentalDays == 90
MatureCommits == 100

\* repo.get_branch(base_branch).get_protection(): the protection object of a
\* protected branch; raises for an unprotected branch (404 "Branch not
\* protected"), for a repository without that branch, and on a failed lookup.
get_protection(r) ==
    IF r.branch = "protected" THEN "BranchProtection" ELSE Raise

\* commits.totalCount: the commit count, or raises when the listing fails.
totalCount(r) == IF r.commitsFail THEN Raise ELSE "ok"

\* A variant that consults branch protection before the archived flag.
ProtectionFirst_determine_lifecycle(r) ==
    IF get_protection(r) = Raise THEN "production"
    ELSE IF get_protection(r) = "BranchProtection" THEN "production"
    ELSE IF r.archived THEN "deprecated"
    ELSE IF r.ageDays < ExperimentalDays THEN "experimental"
    ELSE IF totalCount(r) = Raise THEN "production"
    ELSE IF r.commits > MatureCommits /\ r.pushed THEN "production"
    ELSE "development"

_determine_lifecycle(r) ==
    IF r.archived THEN "deprecated"
    ELSE IF get_protection(r) = Raise THEN "production"      \* except Exception
    ELSE IF get_protection(r) = "BranchProtection" THEN "production"
    ELSE IF r.ageDays < ExperimentalDays THEN "experimental"
    ELSE IF totalCount(r) = Raise THEN "production"          \* except Exception
    ELSE IF r.commits > MatureCommits /\ r.pushed THEN "production"
    ELSE "development"

LifecycleRepos ==
    [archived : BOOLEAN,
     branch : {"protected", "unprotected", "missing", "fail"},
     ageDays : {10, 89, 90, 400},
     commitsFail : BOOLEAN,
     commits : {5, 100, 101},
     pushed : BOOLEAN]

-----------------------------------------------------------------------------
(* Repository Inspector: _determine_owner *)

\* repo.get_contents("CODEOWNERS").decoded_content.decode(): the text of the
\* file, or raises when the file is missing or the lookup fails.
codeowners_content(r) ==
    IF r.codeowners.status = "found" THEN r.codeowners.content ELSE Raise

\* The body of the inner try block around CODEOWNERS: the owner it returns,
\* or "pass" when it returns nothing (no team reference, or an exception).
codeowners_team(r) ==
    LET content == codeowners_content(r)
    IN  IF content = Raise THEN "pass"
        ELSE LET teams == FindTeams(content, 1)
             IN  IF teams # <<>> THEN StripAt(teams[1]) ELSE "pass"

\* The contributor branch.  next() on a listing yields its first element.
contributor_owner(r) ==
    IF r.contributors.status = "fail" THEN "default-team"    \* outer except
    ELSE IF Len(r.contributors.logins) > 0
    THEN LET top_contributor == r.contributors.logins[1]
         IN  IF r.teams.status = "fail"
             THEN "user:" \o top_contributor                 \* inner except
             ELSE IF Len(r.teams.names) > 0
             THEN r.teams.names[1]
             ELSE "default-team"                             \* falls through
    ELSE "default-team"

_determine_owner(r) ==
    IF codeowners_team(r) # "pass" THEN codeowners_team(r)
    ELSE contributor_owner(r)

CodeownersTexts ==
    {"", "* @alice", "* @acme/platform", "*.py @acme/data-eng @acme/platform",
     "* @bob @acme/web_ui", "docs/ @acme/ @/x", "* a@acme.io/ops"}

OwnerRepos ==
    [codeowners : [status : {"found"}, content : CodeownersTexts]
                    \cup [status : {"absent", "fail"}, content : {""}],
     contributors : [status : {"ok"}, logins : {<<>>, <<"alice">>, <<"bob", "alice">>}]
                    \cup [status : {"fail"}, logins : {<<>>}],
     teams : [status : {"ok"}, names : {<<>>, <<"platform">>, <<"web", "platform">>}]
                    \cup [status : {"fail"}, names : {<<>>}]]

-----------------------------------------------------------------------------
(* Status Aggregator: generate_status_report *)

MaxRepos == 2
MaxCalls == 2

RepoNames == <<"alpha", "beta", "gamma", "delta">>

marker == "backstage-integration"

\* What repo.get_pulls(state='open') can list.
PullLists ==
    {<<>>,
     <<[number |-> 7, ref |-> "feature-x"]>>,
     <<[number |-> 7, ref |-> "feature-x"],
       [number |-> 8, ref |-> "fix/backstage-integration"],
       [number |-> 9, ref |-> "backstage-integration-1700000000"]>>}

\* The state of one repository as the aggregator can observe it: catalog is
\* the outcome of get_contents("catalog-info.yaml") ("present": returns,
\* "absent": raises not-found, "fail": raises a transport/auth error), pulls
\* the outcome of listing the open pull requests.
RepoStates ==
    [catalog : {"present", "absent", "fail"},
     pulls : [status : {"ok"}, prs : PullLists] \cup [status : {"fail"}, prs : {<<>>}]]

Named(i, st) == [name |-> RepoNames[i], catalog |-> st.catalog, pulls |-> st.pulls]

\* repo.get_contents("catalog-info.yaml")
get_catalog(r) == IF r.catalog = "present" THEN "ContentFile" ELSE Raise

\* repo.get_pulls(state='open')
get_pulls(r) == IF r.pulls.status = "ok" THEN r.pulls.prs ELSE Raise

\* The loop over open_prs: the first pull request whose head branch name
\* contains the marker, as a one-element sequence, or <<>>.
RECURSIVE first_marked(_)
first_marked(prs) ==
    IF prs = <<>> THEN <<>>
    ELSE IF Contains(Head(prs).ref, marker) THEN <<Head(prs)>>
    ELSE first_marked(Tail(prs))

Line(status, name, pr) == [status |-> status, name |-> name, pr |-> pr]

\* A variant whose counters live on the instance and carry over from the
\* previous call, as the detail list does.
CarriedOver_fresh_counts(lines) ==
    IF reports = <<>>
    THEN [total |-> 0, onboarded |-> 0, in_progress |-> 0, not_onboarded |-> 0,
          lines |-> lines, listed |-> {}]
    ELSE [total |-> reports[Len(reports)].total,
          onboarded |-> reports[Len(reports)].onboarded,
          in_progress |-> reports[Len(reports)].in_progress,
          not_onboarded |-> reports[Len(reports)].not_onboarded,
          lines |-> lines, listed |-> {}]

\* The local counters of one call together with the instance's detail list
\* (and, as history, the repositories whose pull requests were listed).
fresh_counts(lines) ==
    [total |-> 0, onboarded |-> 0, in_progress |-> 0, not_onboarded |-> 0,
     lines |-> lines, listed |-> {}]

\* A variant that lists the pull requests before it looks for the descriptor,
\* so that an open marked pull request overrides the descriptor.
PullsFirst_visit_repo(acc, r) ==
    LET a == [acc EXCEPT !.total = @ + 1]
        b == [a EXCEPT !.listed = @ \cup {r.name}]
    IN  IF get_pulls(r) # Raise /\ first_marked(get_pulls(r)) # <<>>
        THEN [b EXCEPT !.in_progress = @ + 1,
                       !.lines = Append(@, Line("In Progress", r.name,
                                                first_marked(get_pulls(r))[1].number))]
        ELSE IF get_catalog(r) # Raise
        THEN [b EXCEPT !.onboarded = @ + 1,
                       !.lines = Append(@, Line("Onboarded", r.name, 0))]
        ELSE IF get_pulls(r) = Raise
        THEN [b EXCEPT !.lines = Append(@, Line("Error", r.name, 0))]
        ELSE [b EXCEPT !.not_onboarded = @ + 1,
                       !.lines = Append(@, Line("Not Onboarded", r.name, 0))]

\* One iteration of the loop over the repositories.
visit_repo(acc, r) ==
    LET a == [acc EXCEPT !.total = @ + 1]
    IN  IF get_catalog(r) # Raise
        THEN [a EXCEPT !.onboarded = @ + 1,
                       !.lines = Append(@, Line("Onboarded", r.name, 0))]
        ELSE LET b == [a EXCEPT !.listed = @ \cup {r.name}]
             IN  IF get_pulls(r) = Raise
                 THEN [b EXCEPT !.lines = Append(@, Line("Error", r.name, 0))]
                 ELSE LET m == first_marked(get_pulls(r))
                      IN  IF m # <<>>
                          THEN [b EXCEPT !.in_progress = @ + 1,
                                         !.lines = Append(@, Line("In Progress", r.name, m[1].number))]
                          ELSE [b EXCEPT !.not_onboarded = @ + 1,
                                         !.lines = Append(@, Line("Not Onboarded", r.name, 0))]

\* A variant whose try block encloses the loop: the first repository that
\* raises ends the enumeration.
RECURSIVE AbortOnError_visit_all(_, _)
AbortOnError_visit_all(acc, rs) ==
    IF rs = <<>> THEN acc
    ELSE LET a == visit_repo(acc, Head(rs))
         IN  IF a.lines[Len(a.lines)].status = "Error" THEN a
             ELSE AbortOnError_visit_all(a, Tail(rs))

\* for repo in repositories: ...
RECURSIVE visit_all(_, _)
visit_all(acc, rs) ==
    IF rs = <<>> THEN acc ELSE visit_all(visit_repo(acc, Head(rs)), Tail(rs))

\* The summary the call returns.
summary(acc) ==
    [total |-> acc.total, onboarded |-> acc.onboarded,
     in_progress |-> acc.in_progress, not_onboarded |-> acc.not_onboarded,
     details |-> acc.lines]

InitStatus ==
    /\ \E n \in 1..MaxRepos :
         repos \in {[i \in 1..n |-> Named(i, f[i])] : f \in [1..n -> RepoStates]}
    /\ status_report = <<>>
    /\ reports = <<>>
    /\ seen = <<>>
    /\ marks = <<>>
    /\ consulted = <<>>
    /\ dirty = FALSE

IdleInspector ==
    /\ op = "none" /\ repo = "none" /\ pc = "idle" /\ result = "none"

IdleStatus ==
    /\ repos = <<>> /\ status_report = <<>> /\ reports = <<>> /\ seen = <<>>
    /\ marks = <<>> /\ consulted = <<>> /\ dirty = FALSE

IdleRemote ==
    /\ github = "none" /\ calls = <<>> /\ local = "none" /\ now = 0

Init == IdleInspector /\ InitStatus /\ IdleRemote

\* One call of generate_status_report on the instance.
GenerateStatusReport ==
    /\ Len(reports) < MaxCalls
    /\ LET acc == visit_all(fresh_counts(status_report), repos)
       IN  /\ status_report' = acc.lines
           /\ reports' = Append(reports, summary(acc))
           /\ consulted' = Append(consulted, acc.listed)
    /\ seen' = Append(seen, repos)
    /\ marks' = Append(marks, Len(status_report))
    /\ dirty' = FALSE
    /\ UNCHANGED <<repos, inspector_vars, remote_vars>>

\* Between two calls either the descriptor or the open pull requests of one
\* repository change (or that lookup starts or stops failing).
ChangeRepo ==
    /\ reports # <<>> /\ Len(reports) < MaxCalls /\ ~dirty
    /\ \E i \in 1..Len(repos), st \in RepoStates :
         /\ (st.catalog = repos[i].catalog) # (st.pulls = repos[i].pulls)
         /\ repos' = [repos EXCEPT ![i] = Named(i, st)]
    /\ dirty' = TRUE
    /\ UNCHANGED <<status_report, reports, seen, marks, consulted, inspector_vars,
                   remote_vars>>

Next ==
    \/ GenerateStatusReport
    \/ ChangeRepo

Spec == Init /\ [][Next]_vars

-----------------------------------------------------------------------------
(* Specification of the inspector: a method is applied to a repository *)

InitInspector ==
    /\ IdleStatus /\ IdleRemote
    /\ pc = "call"
    /\ result = "none"
    /\ \/ op = "type" /\ repo \in TypeRepos
       \/ op = "lifecycle" /\ repo \in LifecycleRepos
       \/ op = "owner" /\ repo \in OwnerRepos

DetermineComponentType ==
    /\ pc = "call" /\ op = "type"
    /\ result' = _determine_component_type(repo)
    /\ pc' = "return"
    /\ UNCHANGED <<op, repo, status_vars, remote_vars>>

DetermineLifecycle ==
    /\ pc = "call" /\ op = "lifecycle"
    /\ result' = _determine_lifecycle(repo)
    /\ pc' = "return"
    /\ UNCHANGED <<op, repo, status_vars, remote_vars>>

DetermineOwner ==
    /\ pc = "call" /\ op = "owner"
    /\ result' = _determine_owner(repo)
    /\ pc' = "return"
    /\ UNCHANGED <<op, repo, status_vars, remote_vars>>

NextInspector ==
    \/ DetermineComponentType
    \/ DetermineLifecycle
    \/ DetermineOwner

SpecInspector == InitInspector /\ [][NextInspector]_vars

-----------------------------------------------------------------------------
(* Priority Scorer: analyze_repository_priority *)

RecentDays == 30
EstablishedDays == 180
StarPoints == 2
ForkPoints == 5
TopicPoints == 5
PopularityCap == 50
TopicCap == 20

dev_files == <<"README.md", "API.md", "docs", "api", "swagger.yml", "openapi.yml">>
api_keywords == <<"api", "sdk", "library", "client", "developer", "toolkit">>

\* any(k in text.lower() for k in words), the words lower-cased as well
\* (dev_files are lower-cased by the code, api_keywords are lower case).
ContainsAny(text, words) ==
    \E k \in 1..Len(words) : Contains(Lower(text), Lower(words[k]))

\* [f.name for f in repo.get_contents("")]: the top-level entry names, or
\* raises when the listing fails (also for an empty repository).
top_level_names(r) == IF r.listing.status = "ok" THEN r.listing.names ELSE Raise

\* The points and reasons added inside the try block (lines 567-586).
developer_facing(r) ==
    IF top_level_names(r) = Raise
    THEN [points |-> 0, reasons |-> <<>>]                   \* except: pass
    ELSE LET files == top_level_names(r)
             docs == \E j \in 1..Len(files) : ContainsAny(files[j], dev_files)
             desc == r.description # "" /\ ContainsAny(r.description, api_keywords)
             tops == \E t \in 1..Len(r.topics) : ContainsAny(r.topics[t], api_keywords)
         IN  [points |-> (IF docs THEN 30 ELSE 0) + (IF desc THEN 20 ELSE 0)
                           + (IF tops THEN 20 ELSE 0),
              reasons |-> (IF docs THEN <<"Has developer documentation">> ELSE <<>>)
                           \o (IF desc THEN <<"API/SDK-related description">> ELSE <<>>)
                           \o (IF tops THEN <<"API/SDK-related topics">> ELSE <<>>)]

\* A description or homepage of None is modelled by the empty string: both
\* are falsy in every test the code makes.
analyze_repository_priority(r) ==
    LET recent == r.pushedDays <= RecentDays
        established == r.createdDays >= EstablishedDays
        stars == r.stars > 0
        forks == r.forks > 0
        dev == developer_facing(r)
        hasDesc == r.description # ""
        hasHome == r.homepage # ""
        hasTopics == r.topics # <<>>
    IN  [score |-> (IF recent THEN 30 ELSE 0)
                   + (IF established THEN 20 ELSE 0)
                   + (IF stars THEN Min(r.stars * StarPoints, PopularityCap) ELSE 0)
                   + (IF forks THEN Min(r.forks * ForkPoints, PopularityCap) ELSE 0)
                   + dev.points
                   + (IF hasDesc THEN 10 ELSE 0)
                   + (IF hasHome THEN 10 ELSE 0)
                   + (IF hasTopics THEN Min(Len(r.topics) * TopicPoints, TopicCap) ELSE 0),
         reasons |-> (IF recent THEN <<"Recently active">> ELSE <<>>)
                   \o (IF established THEN <<"Established project">> ELSE <<>>)
                   \o (IF stars THEN <<"Has stars">> ELSE <<>>)
                   \o (IF forks THEN <<"Has forks">> ELSE <<>>)
                   \o dev.reasons
                   \o (IF hasDesc THEN <<"Has description">> ELSE <<>>)
                   \o (IF hasHome THEN <<"Has homepage URL">> ELSE <<>>)
                   \o (IF hasTopics THEN <<"Has topics">> ELSE <<>>)]

PriorityRepos ==
    [pushedDays : {5, 30, 31},
     createdDays : {179, 180, 400},
     stars : {0, 5, 25, 26, 100},
     forks : {0, 1, 10, 11},
     listing : [status : {"ok"},
                names : {<<>>, <<"README.md">>, <<"main.py", "src">>, <<"src", "Docs">>}]
               \cup [status : {"fail"}, names : {<<"README.md">>}],
     description : {"", "REST client SDK", "Internal billing tool"},
     homepage : {"", "https://example.org"},
     topics : {<<>>, <<"payments">>, <<"go", "SDK-tools">>,
               <<"api", "b", "c", "d", "e">>}]

InitPriority ==
    /\ IdleStatus /\ IdleRemote
    /\ pc = "call"
    /\ result = "none"
    /\ op = "priority"
    /\ repo \in PriorityRepos

AnalyzeRepositoryPriority ==
    /\ pc = "call" /\ op = "priority"
    /\ result' = analyze_repository_priority(repo)
    /\ pc' = "return"
    /\ UNCHANGED <<op, repo, status_vars, remote_vars>>

NextPriority ==
    \/ AnalyzeRepositoryPriority

SpecPriority == InitPriority /\ [][NextPriority]_vars

-----------------------------------------------------------------------------
(* C1 *)

\* The precedence the claim states, over the set of indicator files present.
PrecedenceType(files) ==
    IF files \cap Range(ServiceIndicators) # {} THEN "service"
    ELSE IF files \cap Range(WebsiteIndicators) # {} THEN "website"
    ELSE IF files \cap Range(LibraryIndicators) # {} THEN "library"
    ELSE "service"

\* C1: for every combination of present/absent indicator files of a readable
\* repository, _determine_component_type returns the type given by the
\* precedence service > website > library > default service.
C1_TypeFollowsPrecedence ==
    (op = "type" /\ pc = "return" /\ ~repo.unreadable)
        => result = PrecedenceType(repo.files)

-----------------------------------------------------------------------------
(* C2 *)

\* The rule order the claim states for a non-archived repository.
RuleOrderLifecycle(r) ==
    IF r.branch = "protected" THEN "production"
    ELSE IF r.ageDays < ExperimentalDays THEN "experimental"
    ELSE IF r.commits > MatureCommits /\ r.pushed THEN "production"
    ELSE "development"

\* C2: for a non-archived repository whose lookups do not fail (the main
\* branch exists and is protected or unprotected, the commit count is
\* available), _determine_lifecycle returns the first applicable rule of
\* protected -> production, age < 90 days -> experimental,
\* commits > 100 and pushed -> production, else development.
C2_LifecycleRuleOrder ==
    (/\ op = "lifecycle" /\ pc = "return"
     /\ ~repo.archived
     /\ repo.branch \in {"protected", "unprotected"}
     /\ ~repo.commitsFail)
        => result = RuleOrderLifecycle(repo)

-----------------------------------------------------------------------------
(* C3 *)

\* C3: an archived repository is classified deprecated whatever its other
\* fields are and whether or not the other lookups would succeed.
C3_ArchivedIsDeprecated ==
    (op = "lifecycle" /\ pc = "return" /\ repo.archived) => result = "deprecated"

\* An archived repository whose protection and commit lookups would both fail
\* has been classified.
C3_Witness ==
    /\ op = "lifecycle" /\ pc = "return"
    /\ repo.archived
    /\ repo.branch = "fail"
    /\ repo.commitsFail
    /\ result = "deprecated"

-----------------------------------------------------------------------------
(* C4 *)

\* The resolution order the claim states.
ResolutionOrderOwner(r) ==
    LET refs == IF r.codeowners.status = "found"
                THEN FindTeams(r.codeowners.content, 1) ELSE <<>>
    IN  IF refs # <<>> THEN StripAt(refs[1])
        ELSE IF Len(r.contributors.logins) > 0
        THEN IF r.teams.status = "ok" /\ Len(r.teams.names) > 0
             THEN r.teams.names[1]
             ELSE "user:" \o r.contributors.logins[1]
        ELSE "default-team"

\* C4: the owner is the first team reference of CODEOWNERS with "@" stripped;
\* else, with at least one contributor, the top contributor's first team when
\* the team lookup returns one and user:<login> whenever it finds none (lookup
\* failed, or succeeded with zero teams); else default-team.
C4_OwnerResolutionOrder ==
    (op = "owner" /\ pc = "return" /\ repo.contributors.status = "ok")
        => result = ResolutionOrderOwner(repo)

-----------------------------------------------------------------------------
(* C5 - C9: the status report *)

\* The detail lines call k appended to the instance's list.
CallLines(k) == SubSeq(reports[k].details, marks[k] + 1, Len(reports[k].details))

HasMarked(prs) == \E m \in 1..Len(prs) : Contains(prs[m].ref, marker)

\* The index of the first pull request, in enumeration order, whose branch
\* name contains the marker.
FirstMarked(prs) ==
    CHOOSE m \in 1..Len(prs) :
        /\ Contains(prs[m].ref, marker)
        /\ \A n \in 1..(m - 1) : ~Contains(prs[n].ref, marker)

CountOf(lines, status) == Cardinality({j \in 1..Len(lines) : lines[j].status = status})

\* C5: in every call, a repository whose descriptor is present is Onboarded
\* and its pull requests are not listed; one without descriptor whose listed
\* pull requests include a marked branch is In Progress with the number of
\* the first such pull request; one without descriptor and without marked
\* pull request is Not Onboarded; the three counts count these lines, so a
\* repository is in at most one of them.
C5_StatusResolution ==
    \A k \in 1..Len(reports) :
        LET lines == CallLines(k)
            rs == seen[k]
            rep == reports[k]
        IN  /\ Len(lines) = Len(rs)
            /\ \A j \in 1..Len(rs) :
                 LET r == rs[j]
                     ln == lines[j]
                 IN  /\ ln.name = r.name
                     /\ r.catalog = "present"
                          => ln.status = "Onboarded" /\ r.name \notin consulted[k]
                     /\ (r.catalog = "absent" /\ r.pulls.status = "ok"
                           /\ HasMarked(r.pulls.prs))
                          => /\ ln.status = "In Progress"
                             /\ ln.pr = r.pulls.prs[FirstMarked(r.pulls.prs)].number
                     /\ (r.catalog = "absent" /\ r.pulls.status = "ok"
                           /\ ~HasMarked(r.pulls.prs))
                          => ln.status = "Not Onboarded"
            /\ rep.onboarded = CountOf(lines, "Onboarded")
            /\ rep.in_progress = CountOf(lines, "In Progress")
            /\ rep.not_onboarded = CountOf(lines, "Not Onboarded")
            /\ rep.onboarded + rep.in_progress + rep.not_onboarded <= rep.total

\* One call reported a repository with descriptor and an open marked pull
\* request as Onboarded, and another without descriptor as In Progress with
\* pull request 8, the first of its two marked pull requests.
C5_Witness ==
    \E k \in 1..Len(reports) :
        \E i, j \in 1..Len(seen[k]) :
            /\ seen[k][i].catalog = "present"
            /\ seen[k][i].pulls.status = "ok" /\ HasMarked(seen[k][i].pulls.prs)
            /\ CallLines(k)[i].status = "Onboarded"
            /\ seen[k][j].catalog = "absent"
            /\ CallLines(k)[j] = Line("In Progress", seen[k][j].name, 8)
            /\ reports[k].onboarded = 1 /\ reports[k].in_progress = 1

\* A lookup the call performs for the repository raises.
LookupFails(r) ==
    \/ r.catalog = "fail"
    \/ r.catalog = "absent" /\ r.pulls.status = "fail"

\* C6: in every call, a repository with a failing lookup (the descriptor
\* lookup fails with a transport/auth error, or the pull-request listing
\* fails) gets an Error line and is in none of the three counts, while it is
\* counted in the total and listed.
C6_LookupFailureIsError ==
    \A k \in 1..Len(reports) :
        LET lines == CallLines(k)
            rs == seen[k]
            rep == reports[k]
            failing == {j \in 1..Len(rs) : LookupFails(rs[j])}
        IN  /\ Len(lines) = Len(rs)
            /\ rep.total = Len(rs)
            /\ \A j \in failing : lines[j].status = "Error"
            /\ rep.onboarded + rep.in_progress + rep.not_onboarded
                 = Len(rs) - Cardinality(failing)

\* The repositories of rs without those that have a failing lookup.
RECURSIVE WithoutFailing(_)
WithoutFailing(rs) ==
    IF rs = <<>> THEN <<>>
    ELSE (IF LookupFails(Head(rs)) THEN <<>> ELSE <<Head(rs)>>) \o WithoutFailing(Tail(rs))

RECURSIVE LinesOf(_, _)
LinesOf(lines, names) ==
    IF lines = <<>> THEN <<>>
    ELSE (IF Head(lines).name \in names THEN <<Head(lines)>> ELSE <<>>)
            \o LinesOf(Tail(lines), names)

\* C7: in every call every enumerated repository is visited, in order; the
\* repositories without failing lookup get exactly the lines that a call over
\* the list without the failing ones gives them; and
\* total = onboarded + in_progress + not_onboarded + number of Error lines.
C7_FailureIsolation ==
    \A k \in 1..Len(reports) :
        LET lines == CallLines(k)
            rs == seen[k]
            rep == reports[k]
            good == WithoutFailing(rs)
            alone == visit_all(fresh_counts(<<>>), good)
        IN  /\ Len(lines) = Len(rs)
            /\ \A j \in 1..Len(rs) : lines[j].name = rs[j].name
            /\ LinesOf(lines, {good[j].name : j \in 1..Len(good)}) = alone.lines
            /\ rep.total = Len(rs)
            /\ rep.total = rep.onboarded + rep.in_progress + rep.not_onboarded
                             + CountOf(lines, "Error")

\* A call visited a repository whose pull-request listing failed and, after
\* it, a repository that it reported In Progress.
C7_Witness ==
    \E k \in 1..Len(reports) :
        /\ Len(seen[k]) >= 2
        /\ LookupFails(seen[k][1])
        /\ CallLines(k)[1].status = "Error"
        /\ CallLines(k)[2].status = "In Progress"
        /\ reports[k].total = Len(seen[k])

\* C8: two consecutive calls on the instance that enumerated the same
\* repositories in the same state return the same four counts.
C8_CountsIdempotent ==
    \A k \in 1..(Len(reports) - 1) :
        seen[k] = seen[k + 1]
            => /\ reports[k].total = reports[k + 1].total
               /\ reports[k].onboarded = reports[k + 1].onboarded
               /\ reports[k].in_progress = reports[k + 1].in_progress
               /\ reports[k].not_onboarded = reports[k + 1].not_onboarded

\* Two calls ran with no change between them, over at least two repositories
\* of which one was In Progress and one had a failing lookup.
C8_Witness ==
    /\ Len(reports) >= 2
    /\ seen[1] = seen[2]
    /\ reports[2].total >= 2
    /\ reports[2].in_progress = 1
    /\ CountOf(CallLines(2), "Error") = 1

\* C9: the detail section of every report holds exactly one line per
\* repository enumerated in that call, in order, and no other line.
C9_ReportHoldsOnlyThisCall ==
    \A k \in 1..Len(reports) :
        /\ Len(reports[k].details) = Len(seen[k])
        /\ \A j \in 1..Len(seen[k]) : reports[k].details[j].name = seen[k][j].name

-----------------------------------------------------------------------------
(* C10 *)

\* The sum of the independent point rules of the table.
RuleSum(r) ==
    (IF r.pushedDays <= 30 THEN 30 ELSE 0)
    + (IF r.createdDays >= 180 THEN 20 ELSE 0)
    + Min(2 * r.stars, 50)
    + Min(5 * r.forks, 50)
    + (IF r.listing.status = "ok"
          /\ \E j \in 1..Len(r.listing.names) : ContainsAny(r.listing.names[j], dev_files)
       THEN 30 ELSE 0)
    + (IF ContainsAny(r.description, api_keywords) THEN 20 ELSE 0)
    + (IF \E t \in 1..Len(r.topics) : ContainsAny(r.topics[t], api_keywords) THEN 20 ELSE 0)
    + (IF r.description # "" THEN 10 ELSE 0)
    + (IF r.homepage # "" THEN 10 ELSE 0)
    + Min(5 * Len(r.topics), 20)

\* C10: the returned score is the sum of the point rules of the table and
\* lies between 0 and 260.
C10_ScoreIsRuleSum ==
    (op = "priority" /\ pc = "return")
        => /\ result.score = RuleSum(repo)
           /\ result.score >= 0 /\ result.score <= 260

-----------------------------------------------------------------------------
(* C11 *)

\* The same repository with a top-level listing that fails.
ListingFailed(r) == [r EXCEPT !.listing = [status |-> "fail", names |-> @.names]]

\* C11: the rules are independent of each other: for a repository whose
\* listing succeeds and its twin whose listing fails, the description-keyword
\* and topic-keyword reasons are awarded alike and the two scores differ by at
\* most the 30 points of the doc-indicator rule.
C11_RulesIndependent ==
    (op = "priority" /\ pc = "return" /\ repo.listing.status = "ok")
        => LET twin == analyze_repository_priority(ListingFailed(repo))
               awarded(res, reason) == \E k \in 1..Len(res.reasons) : res.reasons[k] = reason
           IN  /\ awarded(result, "API/SDK-related description")
                    <=> awarded(twin, "API/SDK-related description")
               /\ awarded(result, "API/SDK-related topics")
                    <=> awarded(twin, "API/SDK-related topics")
               /\ result.score - twin.score <= 30
               /\ twin.score <= result.score

-----------------------------------------------------------------------------
(* API Spec Detector: _detect_api_specs, _determine_api_type *)

MaxEntries == 3

\* Python: s.endswith(suffix)
EndsWith(s, suffix) ==
    /\ Len(suffix) <= Len(s)
    /\ SubSeq(s, Len(s) - Len(suffix) + 1, Len(s)) = suffix

spec_patterns ==
    <<"openapi.yaml", "openapi.yml", "openapi.json",
      "swagger.yaml", "swagger.yml", "swagger.json",
      "asyncapi.yaml", "asyncapi.yml", "asyncapi.json",
      "graphql.schema", "schema.graphql">>

\* any(name.lower().endswith(pat) for pat in spec_patterns)
matches_pattern(name) ==
    \E k \in 1..Len(spec_patterns) : EndsWith(Lower(name), spec_patterns[k])

_determine_api_type(filename) ==
    LET f == Lower(filename)
    IN  IF Contains(f, "openapi") \/ Contains(f, "swagger") THEN "openapi"
        ELSE IF Contains(f, "asyncapi") THEN "asyncapi"
        ELSE IF Contains(f, "graphql") THEN "graphql"
        ELSE "openapi"

\* A variant that compares the directory name as it is spelled.
CaseSensitive_is_spec_dir(name) == name \in {"docs", "api", "specs"}

\* content.name.lower() in ["docs", "api", "specs"]
is_spec_dir(name) == Lower(name) \in {"docs", "api", "specs"}

\* The dictionary appended for a matching entry whose content can be read.
spec_reference(path, name) ==
    [path |-> path, type |-> _determine_api_type(name), content |-> "content of " \o path]

\* A variant that skips a matching entry whose content cannot be read and
\* goes on with the rest of the directory.
RECURSIVE Skipping_scan_subcontents(_, _, _)
Skipping_scan_subcontents(dir, subs, api_specs) ==
    IF subs = <<>> THEN api_specs
    ELSE LET sub == Head(subs)
         IN  IF matches_pattern(sub.name) /\ sub.readable
             THEN Skipping_scan_subcontents(dir, Tail(subs),
                      Append(api_specs, spec_reference(dir \o "/" \o sub.name, sub.name)))
             ELSE Skipping_scan_subcontents(dir, Tail(subs), api_specs)

\* The loop over subcontents inside the inner try block: a content that
\* cannot be read raises before its dictionary is appended and leaves the
\* loop (except: continue), keeping what was appended before.
RECURSIVE scan_subcontents(_, _, _)
scan_subcontents(dir, subs, api_specs) ==
    IF subs = <<>> THEN api_specs
    ELSE LET sub == Head(subs)
         IN  IF matches_pattern(sub.name)
             THEN IF ~sub.readable THEN api_specs
                  ELSE scan_subcontents(dir, Tail(subs),
                           Append(api_specs, spec_reference(dir \o "/" \o sub.name, sub.name)))
             ELSE scan_subcontents(dir, Tail(subs), api_specs)

\* The loop over the top-level contents inside the outer try block: a
\* top-level content that cannot be read raises into the outer except, which
\* ends the scan with what was appended before.
RECURSIVE scan_contents(_, _)
scan_contents(contents, api_specs) ==
    IF contents = <<>> THEN api_specs
    ELSE LET content == Head(contents)
         IN  IF content.type = "dir"
             THEN IF is_spec_dir(content.name)
                  THEN IF ~content.listable
                       THEN scan_contents(Tail(contents), api_specs)
                       ELSE scan_contents(Tail(contents),
                                scan_subcontents(content.name, content.children, api_specs))
                  ELSE scan_contents(Tail(contents), api_specs)
             ELSE IF matches_pattern(content.name)
             THEN IF ~content.readable THEN api_specs
                  ELSE scan_contents(Tail(contents),
                           Append(api_specs, spec_reference(content.name, content.name)))
             ELSE scan_contents(Tail(contents), api_specs)

_detect_api_specs(r) ==
    IF r.listingFails THEN <<>>        \* repo.get_contents("") raises
    ELSE scan_contents(r.contents, <<>>)

File(name, readable) ==
    [name |-> name, type |-> "file", readable |-> readable, listable |-> FALSE,
     children |-> <<>>]
Dir(name, listable, children) ==
    [name |-> name, type |-> "dir", readable |-> FALSE, listable |-> listable,
     children |-> children]

\* The top-level entries a repository is built from.
TopEntries ==
    {File("openapi.yaml", TRUE),
     File("Swagger.JSON", TRUE),
     File("Swagger.JSON", FALSE),
     File("README.md", TRUE),
     Dir("docs", TRUE, <<File("events-asyncapi.yml", TRUE), File("guide.md", TRUE)>>),
     Dir("Specs", TRUE, <<File("schema.graphql", TRUE), File("petstore-openapi.json", TRUE),
                          Dir("v2", TRUE, <<File("openapi.yaml", TRUE)>>)>>),
     Dir("Specs", TRUE, <<File("schema.graphql", TRUE), File("petstore-openapi.json", FALSE),
                          File("graphql.schema", TRUE)>>),
     Dir("api", FALSE, <<File("openapi.yml", TRUE)>>),
     Dir("src", TRUE, <<File("openapi.yaml", TRUE)>>)}

\* Listings of at most MaxEntries entries with distinct names.
Listings ==
    UNION {{c \in [1..n -> TopEntries] :
               \A i, j \in 1..n : i # j => c[i].name # c[j].name} : n \in 0..MaxEntries}

TreeRepos == [listingFails : BOOLEAN, contents : Listings]

InitDetector ==
    /\ IdleStatus /\ IdleRemote
    /\ pc = "call"
    /\ result = "none"
    /\ op = "specs"
    /\ repo \in TreeRepos

DetectApiSpecs ==
    /\ pc = "call" /\ op = "specs"
    /\ result' = _detect_api_specs(repo)
    /\ pc' = "return"
    /\ UNCHANGED <<op, repo, status_vars, remote_vars>>

NextDetector ==
    \/ DetectApiSpecs

SpecDetector == InitDetector /\ [][NextDetector]_vars

-----------------------------------------------------------------------------
(* C14 *)

\* Some lookup of the scan raises: the top-level listing, the listing of a
\* docs/api/specs directory, or the content of a matching file.  The first
\* such lookup in enumeration order is always reached by the scan.
IOFailure(r) ==
    \/ r.listingFails
    \/ \E i \in 1..Len(r.contents) :
         LET c == r.contents[i]
         IN  \/ c.type = "file" /\ matches_pattern(c.name) /\ ~c.readable
             \/ c.type = "dir" /\ is_spec_dir(c.name) /\ ~c.listable
             \/ /\ c.type = "dir" /\ is_spec_dir(c.name) /\ c.listable
                /\ \E j \in 1..Len(c.children) :
                     /\ c.children[j].type = "file"
                     /\ matches_pattern(c.children[j].name)
                     /\ ~c.children[j].readable

\* C14: whenever an I/O failure occurs during the scan, the returned list is
\* empty.
C14_FailureGivesEmptyList ==
    (op = "specs" /\ pc = "return" /\ IOFailure(repo)) => result = <<>>

-----------------------------------------------------------------------------
(* C15 *)

\* The files the claim names, with their paths, in enumeration order: the
\* top-level files and the direct file entries of docs/api/specs directories.
RECURSIVE FilesInScope(_)
FilesInScope(contents) ==
    IF contents = <<>> THEN <<>>
    ELSE LET c == Head(contents)
             here == IF c.type = "file"
                     THEN <<[path |-> c.name, name |-> c.name]>>
                     ELSE IF Lower(c.name) \in {"docs", "api", "specs"}
                     THEN LET fs == SelectSeq(c.children, LAMBDA x : x.type = "file")
                          IN  [j \in 1..Len(fs) |->
                                  [path |-> c.name \o "/" \o fs[j].name,
                                   name |-> fs[j].name]]
                     ELSE <<>>
         IN  here \o FilesInScope(Tail(contents))

\* The type the claim gives a file name.
ClaimedApiType(name) ==
    IF Contains(Lower(name), "openapi") \/ Contains(Lower(name), "swagger") THEN "openapi"
    ELSE IF Contains(Lower(name), "asyncapi") THEN "asyncapi"
    ELSE IF Contains(Lower(name), "graphql") THEN "graphql"
    ELSE "openapi"

RECURSIVE MatchingReferences(_)
MatchingReferences(files) ==
    IF files = <<>> THEN <<>>
    ELSE (IF matches_pattern(Head(files).name)
          THEN <<[path |-> Head(files).path, type |-> ClaimedApiType(Head(files).name)]>>
          ELSE <<>>) \o MatchingReferences(Tail(files))

\* C15: with no I/O failure the result holds exactly one reference, in
\* enumeration order, for each file with a spec suffix that is a top-level
\* file or a direct entry of a docs/api/specs directory, typed by its name.
C15_DetectsExactlyScopedFiles ==
    (op = "specs" /\ pc = "return" /\ ~IOFailure(repo))
        => [k \in 1..Len(result) |-> [path |-> result[k].path, type |-> result[k].type]]
             = MatchingReferences(FilesInScope(repo.contents))

\* A scan without failure returned the asyncapi file of docs and the graphql
\* and openapi files of Specs, and nothing for src/openapi.yaml.
C15_Witness ==
    /\ op = "specs" /\ pc = "return" /\ ~IOFailure(repo)
    /\ Len(repo.contents) = 3
    /\ \E i \in 1..3 : repo.contents[i].name = "src"
    /\ [k \in 1..Len(result) |-> <<result[k].path, result[k].type>>]
         = << <<"docs/events-asyncapi.yml", "asyncapi">>,
              <<"Specs/schema.graphql", "graphql">>,
              <<"Specs/petstore-openapi.json", "openapi">> >>

-----------------------------------------------------------------------------
(* C14, amended *)

\* The first position of seq whose entry is Bad, or Len(seq) + 1.
FirstAt(seq, Bad(_)) ==
    LET S == {i \in 1..Len(seq) : Bad(seq[i])} \cup {Len(seq) + 1}
    IN  CHOOSE i \in S : \A j \in S : i <= j

UnreadableSpec(c) == c.type = "file" /\ matches_pattern(c.name) /\ ~c.readable

\* The part of the tree the scan reads before a failure stops it: the
\* top-level entries before the first matching file that cannot be read, and
\* of each docs/api/specs directory the entries before its first such file
\* (none when the directory cannot be listed).
ReadBeforeFailure(contents) ==
    LET top == SubSeq(contents, 1, FirstAt(contents, UnreadableSpec) - 1)
    IN  [i \in 1..Len(top) |->
            IF top[i].type = "dir"
            THEN [top[i] EXCEPT !.children =
                     IF top[i].listable
                     THEN SubSeq(@, 1, FirstAt(@, UnreadableSpec) - 1)
                     ELSE <<>>]
            ELSE top[i]]

\* C14 (amended): when an I/O failure occurs during the scan, the specs
\* detected before it are kept.  A failed top-level listing gives the empty
\* list; a failure inside a docs/api/specs directory abandons the rest of that
\* directory only; a failure reading a matching top-level file ends the scan.
C14_PartialResultKept ==
    (op = "specs" /\ pc = "return" /\ IOFailure(repo))
        => IF repo.listingFails THEN result = <<>>
           ELSE [k \in 1..Len(result) |-> [path |-> result[k].path, type |-> result[k].type]]
                  = MatchingReferences(FilesInScope(ReadBeforeFailure(repo.contents)))

\* A file of Specs could not be read after one spec of Specs was detected;
\* the scan returned that spec and the top-level spec that follows the
\* directory.
C14_Witness ==
    /\ op = "specs" /\ pc = "return" /\ IOFailure(repo)
    /\ Len(repo.contents) = 2
    /\ repo.contents[1].type = "dir"
    /\ [k \in 1..Len(result) |-> result[k].path]
         = <<"Specs/schema.graphql", "openapi.yaml">>

-----------------------------------------------------------------------------
(* Catalog Descriptor Builder: create_catalog_info, create_api_entity,
   create_catalog_entities *)

org_login == "acme"

\* yaml.dump of the Component dictionary, kept as the record it serializes.
create_catalog_info(r, component_name) ==
    [apiVersion |-> "backstage.io/v1alpha1",
     kind |-> "Component",
     name |-> component_name,
     description |-> IF r.description # "" THEN r.description
                     ELSE "Auto-generated component for " \o r.name,
     slug |-> org_login \o "/" \o r.name,
     visibility |-> IF ~r.private THEN "public" ELSE "private",
     tags |-> (IF r.language # "" THEN <<Lower(r.language)>> ELSE <<>>) \o r.topics,
     type |-> _determine_component_type(r),
     lifecycle |-> _determine_lifecycle(r),
     owner |-> _determine_owner(r),
     system |-> IF r.topics # <<>> THEN r.topics[1] ELSE "default-system"]

\* yaml.dump of the API dictionary, kept as the record it serializes.
create_api_entity(repo_name, api_spec) ==
    [apiVersion |-> "backstage.io/v1alpha1",
     kind |-> "API",
     name |-> repo_name \o "-api",
     description |-> "API for " \o repo_name,
     slug |-> org_login \o "/" \o repo_name,
     location |-> "url:https://github.com/" \o org_login \o "/" \o repo_name
                    \o "/blob/main/" \o api_spec.path,
     type |-> api_spec.type,
     lifecycle |-> "production",
     owner |-> "default-team",
     definition |-> api_spec.content]

\* A variant whose API descriptors take over the Component's owner and
\* lifecycle.
Inherit_create_catalog_entities(r, component_name) ==
    LET component == create_catalog_info(r, component_name)
        api_specs == _detect_api_specs(r)
    IN  <<component>>
        \o [k \in 1..Len(api_specs) |->
               [create_api_entity(r.name, api_specs[k])
                   EXCEPT !.owner = component.owner, !.lifecycle = component.lifecycle]]

create_catalog_entities(r, component_name) ==
    LET api_specs == _detect_api_specs(r)
    IN  <<create_catalog_info(r, component_name)>>
        \o [k \in 1..Len(api_specs) |-> create_api_entity(r.name, api_specs[k])]

\* What the inspector finds in the repository whose entities are built.
InspectionProfiles ==
    {[name |-> "billing", description |-> "", language |-> "Python",
      topics |-> <<"payments", "api">>, private |-> FALSE,
      files |-> {"Dockerfile"}, unreadable |-> FALSE,
      archived |-> TRUE, branch |-> "protected", ageDays |-> 400,
      commitsFail |-> FALSE, commits |-> 101, pushed |-> TRUE,
      codeowners |-> [status |-> "found", content |-> "* @acme/platform"],
      contributors |-> [status |-> "ok", logins |-> <<"alice">>],
      teams |-> [status |-> "ok", names |-> <<"web">>]],
     [name |-> "ledger", description |-> "Ledger service", language |-> "",
      topics |-> <<>>, private |-> TRUE,
      files |-> {}, unreadable |-> FALSE,
      archived |-> FALSE, branch |-> "protected", ageDays |-> 10,
      commitsFail |-> FALSE, commits |-> 5, pushed |-> TRUE,
      codeowners |-> [status |-> "absent", content |-> ""],
      contributors |-> [status |-> "ok", logins |-> <<"alice">>],
      teams |-> [status |-> "fail", names |-> <<>>]],
     [name |-> "scratch", description |-> "", language |-> "",
      topics |-> <<>>, private |-> FALSE,
      files |-> {}, unreadable |-> TRUE,
      archived |-> FALSE, branch |-> "fail", ageDays |-> 10,
      commitsFail |-> TRUE, commits |-> 5, pushed |-> FALSE,
      codeowners |-> [status |-> "fail", content |-> ""],
      contributors |-> [status |-> "fail", logins |-> <<>>],
      teams |-> [status |-> "fail", names |-> <<>>]]}

WithTree(profile, tree) ==
    [name |-> profile.name, description |-> profile.description,
     language |-> profile.language, topics |-> profile.topics,
     private |-> profile.private, files |-> profile.files,
     unreadable |-> profile.unreadable, archived |-> profile.archived,
     branch |-> profile.branch, ageDays |-> profile.ageDays,
     commitsFail |-> profile.commitsFail, commits |-> profile.commits,
     pushed |-> profile.pushed, codeowners |-> profile.codeowners,
     contributors |-> profile.contributors, teams |-> profile.teams,
     listingFails |-> tree.listingFails, contents |-> tree.contents]

EntityRepos == {WithTree(p, t) : p \in InspectionProfiles, t \in TreeRepos}

InitBuilder ==
    /\ IdleStatus /\ IdleRemote
    /\ pc = "call"
    /\ result = "none"
    /\ op = "entities"
    /\ repo \in EntityRepos

CreateCatalogEntities ==
    /\ pc = "call" /\ op = "entities"
    /\ result' = create_catalog_entities(repo, repo.name)
    /\ pc' = "return"
    /\ UNCHANGED <<op, repo, status_vars, remote_vars>>

NextBuilder ==
    \/ CreateCatalogEntities

SpecBuilder == InitBuilder /\ [][NextBuilder]_vars

-----------------------------------------------------------------------------
(* C16 *)

\* C16: the returned list is one Component descriptor of the repository
\* followed by one API descriptor per detected spec, in detection order, and
\* every API descriptor has lifecycle production and owner default-team.
C16_ComponentThenApis ==
    (op = "entities" /\ pc = "return")
        => LET detected == _detect_api_specs(repo)
           IN  /\ Len(result) = 1 + Len(detected)
               /\ result[1].kind = "Component"
               /\ result[1].name = repo.name
               /\ \A k \in 2..Len(result) :
                    /\ result[k].kind = "API"
                    /\ result[k].definition = detected[k - 1].content
                    /\ result[k].type = detected[k - 1].type
                    /\ result[k].lifecycle = "production"
                    /\ result[k].owner = "default-team"

\* Descriptors were built for an archived repository owned by acme/platform
\* in which two specs were detected.
C16_Witness ==
    /\ op = "entities" /\ pc = "return"
    /\ Len(result) = 3
    /\ result[1].lifecycle = "deprecated"
    /\ result[1].owner = "acme/platform"
    /\ result[2].kind = "API" /\ result[3].kind = "API"
    /\ result[3].owner = "default-team"

-----------------------------------------------------------------------------
(* Priority report: generate_priority_report *)

MaxOrg == 12
ReportThreshold == 30
TopCount == 10

\* A variant that scores every repository, with or without a descriptor.
RECURSIVE NoSkip_analyze_all(_, _)
NoSkip_analyze_all(repositories, acc) ==
    IF repositories = <<>> THEN acc
    ELSE LET r == Head(repositories)
             called == Append(acc.calls, <<"analyze_repository_priority", r.name>>)
         IN  IF r.neverPushed
             THEN NoSkip_analyze_all(Tail(repositories), [acc EXCEPT !.calls = called])
             ELSE LET res == analyze_repository_priority(r)
                  IN  NoSkip_analyze_all(Tail(repositories),
                          [analysis_results |->
                              IF res.score > ReportThreshold
                              THEN Append(acc.analysis_results,
                                          [name |-> r.name, score |-> res.score])
                              ELSE acc.analysis_results,
                           calls |-> called])

\* The loop over the organization's repositories.  A repository whose
\* descriptor lookup returns is skipped; a lookup that raises, for whatever
\* reason, lets the repository be scored.  pushed_at is None for a repository
\* that never received a push: the subtraction on line 549 then raises, the
\* outer handler prints and the loop goes on.
RECURSIVE analyze_all(_, _)
analyze_all(repositories, acc) ==
    IF repositories = <<>> THEN acc
    ELSE LET r == Head(repositories)
         IN  IF r.catalog = "present"
             THEN analyze_all(Tail(repositories), acc)
             ELSE LET called == Append(acc.calls,
                                       <<"analyze_repository_priority", r.name>>)
                  IN  IF r.neverPushed
                      THEN analyze_all(Tail(repositories), [acc EXCEPT !.calls = called])
                      ELSE LET res == analyze_repository_priority(r)
                           IN  analyze_all(Tail(repositories),
                                   [analysis_results |->
                                       IF res.score > ReportThreshold
                                       THEN Append(acc.analysis_results,
                                                   [name |-> r.name, score |-> res.score])
                                       ELSE acc.analysis_results,
                                    calls |-> called])

\* list.sort(key=score, reverse=True) is stable: results of equal score keep
\* the order they were appended in.  x goes behind every result whose score
\* is at least its own.
RECURSIVE insert_desc(_, _)
insert_desc(x, sorted) ==
    IF sorted = <<>> THEN <<x>>
    ELSE IF Head(sorted).score >= x.score
         THEN <<Head(sorted)>> \o insert_desc(x, Tail(sorted))
         ELSE <<x>> \o sorted

\* A variant that sorts ascending and reverses the list, which turns the
\* order of equal scores around.
RECURSIVE Reversed_sort_desc(_, _)
Reversed_sort_desc(results, sorted) ==
    IF results = <<>> THEN sorted
    ELSE LET x == Head(results)
             k == Cardinality({i \in 1..Len(sorted) : sorted[i].score > x.score})
         IN  Reversed_sort_desc(Tail(results),
                 SubSeq(sorted, 1, k) \o <<x>> \o SubSeq(sorted, k + 1, Len(sorted)))

RECURSIVE sort_desc(_, _)
sort_desc(results, sorted) ==
    IF results = <<>> THEN sorted
    ELSE sort_desc(Tail(results), insert_desc(Head(results), sorted))

\* The "### idx. name (Score: score)" entries of the report, in order.
generate_priority_report(repositories) ==
    LET acc == analyze_all(repositories, [analysis_results |-> <<>>, calls |-> <<>>])
        sorted == sort_desc(acc.analysis_results, <<>>)
        top == SubSeq(sorted, 1, Min(TopCount, Len(sorted)))
    IN  [entries |-> [idx \in 1..Len(top) |->
                         [idx |-> idx, name |-> top[idx].name, score |-> top[idx].score]],
         calls |-> acc.calls]

Scored(pushedDays, createdDays, stars, catalog, neverPushed) ==
    [pushedDays |-> pushedDays, createdDays |-> createdDays, stars |-> stars,
     forks |-> 0, listing |-> [status |-> "ok", names |-> <<"README.md">>],
     description |-> "", homepage |-> "", topics |-> <<>>,
     catalog |-> catalog, neverPushed |-> neverPushed]

\* The kinds of repository an organization is made of: scores 130, 60, 32
\* and 30, with the descriptor absent, present, or its lookup failing.
ReportProfiles ==
    {Scored(5, 400, 25, "absent", FALSE),
     Scored(5, 400, 25, "present", FALSE),
     Scored(5, 400, 25, "absent", TRUE),
     Scored(5, 179, 0, "absent", FALSE),
     Scored(5, 179, 0, "fail", FALSE),
     [Scored(5, 179, 0, "absent", FALSE) EXCEPT !.listing.names = <<>>],
     [Scored(31, 179, 1, "absent", FALSE) EXCEPT !.listing.names = <<"docs">>]}

ReportPatterns ==
    {<<a>> : a \in ReportProfiles}
    \cup {<<a, b>> : a \in ReportProfiles, b \in ReportProfiles}
    \cup {<<a, b, c>> : a \in ReportProfiles, b \in ReportProfiles, c \in ReportProfiles}

\* org.get_repos(): the pattern repeated up to a length, each repository
\* named after its position.
Organizations ==
    {[i \in 1..n |->
        [name |-> "repo-" \o ToString(i)] @@ p[((i - 1) % Len(p)) + 1]] :
        n \in 0..MaxOrg, p \in ReportPatterns}

InitReport ==
    /\ IdleStatus /\ IdleRemote
    /\ pc = "call"
    /\ result = "none"
    /\ op = "priority_report"
    /\ repo \in Organizations

GeneratePriorityReport ==
    /\ pc = "call" /\ op = "priority_report"
    /\ LET r == generate_priority_report(repo)
       IN  /\ result' = r.entries
           /\ calls' = r.calls
    /\ pc' = "return"
    /\ UNCHANGED <<op, repo, status_vars, github, local, now>>

NextReport ==
    \/ GeneratePriorityReport

SpecReport == InitReport /\ [][NextReport]_vars

-----------------------------------------------------------------------------
(* C12 *)

ListedNames == {result[k].name : k \in 1..Len(result)}
ScoredNames == {calls[k][2] : k \in 1..Len(calls)}

\* C12: a repository whose catalog-info.yaml exists is never scored and never
\* listed by generate_priority_report, whatever its score would be.
C12_OnboardedNeverScored ==
    (op = "priority_report" /\ pc = "return")
        => \A i \in 1..Len(repo) :
              repo[i].catalog = "present"
                 => /\ repo[i].name \notin ListedNames
                    /\ repo[i].name \notin ScoredNames

\* A report was produced for an organization holding a repository that has a
\* descriptor and would score 130, next to a listed repository that scores
\* less.
C12_Witness ==
    /\ op = "priority_report" /\ pc = "return"
    /\ \E i \in 1..Len(repo) :
         /\ repo[i].catalog = "present"
         /\ analyze_repository_priority(repo[i]).score = 130
    /\ \E k \in 1..Len(result) : result[k].score = 60

-----------------------------------------------------------------------------
(* C13 *)

\* The position of a listed name in the enumeration.
PositionOf(name) == CHOOSE i \in 1..Len(repo) : repo[i].name = name

\* The repositories that are scored without error, with their scores.
ScoreAt(i) == analyze_repository_priority(repo[i]).score
Reportable(i) ==
    /\ repo[i].catalog # "present"
    /\ ~repo[i].neverPushed
    /\ ScoreAt(i) > 30

\* C13: the report lists only repositories scoring strictly more than 30, at
\* most 10 of them, in non-increasing score order with equal scores in
\* enumeration order; every listed repository scores at least as much as
\* every reportable one left out; a repository whose scoring raises is
\* omitted and the others are still scored.
C13_TopTenStableOrder ==
    (op = "priority_report" /\ pc = "return")
        => LET reportable == {i \in 1..Len(repo) : Reportable(i)}
               listed == {PositionOf(result[k].name) : k \in 1..Len(result)}
           IN  /\ \A k \in 1..Len(result) :
                    /\ \E i \in reportable : repo[i].name = result[k].name
                    /\ result[k].score = ScoreAt(PositionOf(result[k].name))
                    /\ result[k].score > 30
               /\ Len(result) = Min(10, Cardinality(reportable))
               /\ Cardinality(listed) = Len(result)
               /\ \A k \in 1..Len(result), l \in 1..Len(result) :
                    k < l => /\ result[k].score >= result[l].score
                             /\ result[k].score = result[l].score
                                   => PositionOf(result[k].name) < PositionOf(result[l].name)
               /\ \A i \in listed, j \in reportable \ listed : ScoreAt(i) >= ScoreAt(j)
               /\ \A i \in 1..Len(repo) :
                    /\ repo[i].neverPushed => repo[i].name \notin ListedNames
                    /\ (repo[i].catalog # "present") => repo[i].name \in ScoredNames

\* Twelve repositories were enumerated, scoring 60 and 130 in turn: the six
\* scoring 130 are listed first, then the first four of the six scoring 60,
\* each group in enumeration order; repo-9 and repo-11 are left out.
C13_Witness ==
    /\ op = "priority_report" /\ pc = "return"
    /\ Len(repo) = 12
    /\ [k \in 1..Len(result) |-> result[k].name]
         = <<"repo-2", "repo-4", "repo-6", "repo-8", "repo-10", "repo-12",
             "repo-1", "repo-3", "repo-5", "repo-7">>
    /\ ScoreAt(9) = 60 /\ Reportable(9) /\ Reportable(11)

-----------------------------------------------------------------------------
(* C17 *)

\* C17: an absent file or protection setting answers 'no' and evaluation goes
\* on with the next rule.  A readable repository without Dockerfile and
\* without any other service indicator that has package.json is a website; a
\* non-archived repository younger than 90 days whose main branch exists
\* without protection is experimental.
C17_AbsenceIsNegativeSignal ==
    /\ (/\ op = "type" /\ pc = "return"
        /\ ~repo.unreadable
        /\ repo.files \cap Range(ServiceIndicators) = {}
        /\ "package.json" \in repo.files)
          => result = "website"
    /\ (/\ op = "lifecycle" /\ pc = "return"
        /\ ~repo.archived
        /\ repo.branch = "unprotected"
        /\ repo.ageDays < ExperimentalDays)
          => result = "experimental"

-----------------------------------------------------------------------------
(* Force merge: force_merge_pr, one action per collaborator call *)

\* The protection settings edit_protection is called with on line 474.
restored_protection == [enabled |-> TRUE, strict |-> TRUE, enforce_admins |-> TRUE]

\* A branch without protection; also the local variable protection while it
\* is None.
Unprotected == [enabled |-> FALSE, strict |-> FALSE, enforce_admins |-> FALSE]

ProtectionSettings == [enabled : {TRUE}, strict : BOOLEAN, enforce_admins : BOOLEAN]

MergeRequests ==
    [repo_name : {"billing", "ledger"},
     pr_number : {7, 9},
     base_ref : {"main", "develop"},
     protection : {Unprotected} \cup ProtectionSettings]

InitMerge ==
    /\ IdleStatus
    /\ op = "force_merge"
    /\ repo \in MergeRequests
    /\ pc = "get_pull"
    /\ result = "none"
    /\ github = [branch |-> repo.base_ref, protection |-> repo.protection,
                 pull |-> "open"]
    /\ calls = <<>>
    /\ local = [branch |-> "none", protection |-> Unprotected, merged |-> "none"]
    /\ now = 0

\* Lines 447-449, outside the try block: an error of get_repo or get_pull
\* leaves the method.
GetPull ==
    /\ op = "force_merge" /\ pc = "get_pull"
    /\ \/ /\ local' = [local EXCEPT !.branch = github.branch]
          /\ pc' = "get_protection"
          /\ UNCHANGED result
       \/ /\ pc' = "raised"
          /\ result' = Raise
          /\ UNCHANGED local
    /\ UNCHANGED <<op, repo, status_vars, github, calls, now>>

\* Lines 453-458: the inner try block.  get_protection raises for a branch
\* without protection, and may fail for a protected one; either way
\* protection stays None.
GetProtection ==
    /\ op = "force_merge" /\ pc = "get_protection"
    /\ \/ /\ github.protection.enabled
          /\ local' = [local EXCEPT !.protection = github.protection]
       \/ UNCHANGED local
    /\ pc' = "remove_protection"
    /\ UNCHANGED <<op, repo, result, status_vars, github, calls, now>>

\* Lines 460-462.
RemoveProtection ==
    /\ op = "force_merge" /\ pc = "remove_protection"
    /\ IF ~local.protection.enabled
       THEN /\ pc' = "merge"
            /\ UNCHANGED <<github, calls, result>>
       ELSE \/ /\ github' = [github EXCEPT !.protection = Unprotected]
               /\ calls' = Append(calls, <<"remove_protection", local.branch>>)
               /\ pc' = "merge"
               /\ UNCHANGED result
            \/ /\ pc' = "return"                  \* except Exception, line 485
               /\ result' = FALSE
               /\ UNCHANGED <<github, calls>>
    /\ UNCHANGED <<op, repo, local, status_vars, now>>

\* Lines 464-469: pr.merge returns a status that says merged or not, or
\* raises.
Merge ==
    /\ op = "force_merge" /\ pc = "merge"
    /\ \/ /\ github' = [github EXCEPT !.pull = "merged"]
          /\ calls' = Append(calls, <<"merge", repo.pr_number>>)
          /\ local' = [local EXCEPT !.merged = TRUE]
          /\ pc' = "restore"
          /\ UNCHANGED result
       \/ /\ local' = [local EXCEPT !.merged = FALSE]
          /\ pc' = "restore"
          /\ UNCHANGED <<github, calls, result>>
       \/ /\ pc' = "return"                       \* except Exception, line 485
          /\ result' = FALSE
          /\ UNCHANGED <<github, calls, local>>
    /\ UNCHANGED <<op, repo, status_vars, now>>

\* Lines 471-483.
Restore ==
    /\ op = "force_merge" /\ pc = "restore"
    /\ IF ~local.protection.enabled
       THEN /\ result' = local.merged
            /\ UNCHANGED <<github, calls>>
       ELSE \/ /\ github' = [github EXCEPT !.protection = restored_protection]
               /\ calls' = Append(calls, <<"edit_protection", local.branch>>)
               /\ result' = local.merged
            \/ /\ result' = FALSE                 \* except Exception, line 485
               /\ UNCHANGED <<github, calls>>
    /\ pc' = "return"
    /\ UNCHANGED <<op, repo, local, status_vars, now>>

NextMerge ==
    \/ GetPull
    \/ GetProtection
    \/ RemoveProtection
    \/ Merge
    \/ Restore

SpecMerge == InitMerge /\ [][NextMerge]_vars

-----------------------------------------------------------------------------
(* C18 *)

\* C18: if the base branch of the pull request was protected when
\* force_merge_pr started, it is protected when the call returns or raises.
C18_ProtectionPreserved ==
    (op = "force_merge" /\ pc \in {"return", "raised"} /\ repo.protection.enabled)
        => github.protection.enabled

-----------------------------------------------------------------------------
(* Orchestrator: successive runs of main in full-organization mode, with
   create_pr_and_issue one action per collaborator call *)

MaxRuns == 2
MaxFailures == 1

\* org.get_repos(), in enumeration order.
OnboardOrg == <<"billing", "ledger">>

\* What the default branch of each repository holds before the first run:
\* whether catalog-info.yaml is there, and how much of .github/workflows.
OrgLayouts ==
    {[n \in {"billing", "ledger"} |->
        IF n = "billing" THEN [catalog |-> FALSE, layout |-> l]
        ELSE [catalog |-> c, layout |-> "workflows"]] :
        l \in {"none", "github", "workflows"}, c \in BOOLEAN}

\* f"backstage-integration-{int(time.time())}"
branch_name(t) == "backstage-integration-" \o ToString(t)

catalog_path == "catalog-info.yaml"
workflow_path == ".github/workflows/publish-backstage.yml"

InitOnboard ==
    /\ IdleStatus
    /\ op = "main"
    /\ repo \in OrgLayouts
    /\ pc = "idle"
    /\ result = "none"
    /\ github = [n \in DOMAIN repo |->
                    [branches |-> {base_branch}, files |-> {},
                     pulls |-> <<>>, issues |-> <<>>]]
    /\ calls = <<>>
    /\ local = [run |-> 0, queue |-> <<>>, repo_name |-> "none",
                branch_name |-> "none", pr |-> 0, failures |-> 0]
    /\ now = 0

\* A collaborator call that raises a transport error: create_pr_and_issue has
\* no handler, so the error reaches the handler of the loop in main (line
\* 841), which counts the repository as failed and goes on with the next.
CallRaises(call, target) ==
    /\ local.failures < MaxFailures
    /\ call = "create_git_ref" => local.branch_name \notin github[local.repo_name].branches
    /\ calls' = Append(calls, [call |-> call, target |-> target,
                              branch |-> local.branch_name, ok |-> FALSE])
    /\ local' = [local EXCEPT !.failures = @ + 1]
    /\ pc' = "loop"
    /\ result' = Raise
    /\ UNCHANGED github

\* create_git_ref raises for a reference that exists already.
RefExists ==
    /\ local.branch_name \in github[local.repo_name].branches
    /\ calls' = Append(calls, [call |-> "create_git_ref", target |-> local.branch_name,
                              branch |-> local.branch_name, ok |-> FALSE])
    /\ pc' = "loop"
    /\ result' = Raise
    /\ UNCHANGED <<github, local>>

\* repo.create_file(path, message, content, branch=branch_name) returned.
FileCreated(path, next) ==
    /\ github' = [github EXCEPT ![local.repo_name].files =
                     @ \cup {<<local.branch_name, path>>}]
    /\ calls' = Append(calls, [call |-> "create_file", target |-> path,
                              branch |-> local.branch_name, ok |-> TRUE])
    /\ pc' = next
    /\ UNCHANGED <<local, result>>

\* main is started again, in the second the previous run read from the
\* clock or in a later one; the calls of one run read the same second.
StartRun ==
    /\ op = "main" /\ pc = "idle"
    /\ local.run < MaxRuns
    /\ local' = [local EXCEPT !.run = @ + 1, !.queue = OnboardOrg]
    /\ now' \in {now, now + 1}
    /\ pc' = "loop"
    /\ UNCHANGED <<op, repo, result, status_vars, github, calls>>

\* Lines 824-838: the next repository of the loop.  The descriptor is looked
\* up on the default branch only; when the lookup returns the repository is
\* skipped, otherwise create_pr_and_issue is entered.
NextRepo ==
    /\ op = "main" /\ pc = "loop"
    /\ local.queue # <<>>
    /\ LET name == Head(local.queue)
       IN  IF repo[name].catalog
           THEN /\ local' = [local EXCEPT !.queue = Tail(@)]
                /\ pc' = "loop"
                /\ UNCHANGED <<calls, result>>
           ELSE /\ local' = [local EXCEPT !.queue = Tail(@), !.repo_name = name,
                                          !.branch_name = "none", !.pr = 0]
                /\ calls' = <<>>
                /\ result' = "none"
                /\ pc' = "get_branch"
    /\ UNCHANGED <<op, repo, status_vars, github, now>>

\* Lines 846-859: the loop is over and the summary is written.
EndRun ==
    /\ op = "main" /\ pc = "loop"
    /\ local.queue = <<>>
    /\ pc' = "idle"
    /\ UNCHANGED <<op, repo, result, status_vars, github, calls, local, now>>

\* Lines 179-183: get_repo, the branch name from the clock, get_branch.
GetBranch ==
    /\ op = "main" /\ pc = "get_branch"
    /\ \/ /\ local' = [local EXCEPT !.branch_name = branch_name(now)]
          /\ pc' = "create_git_ref"
          /\ UNCHANGED <<github, calls, result>>
       \/ CallRaises("get_branch", base_branch)
    /\ UNCHANGED <<op, repo, status_vars, now>>

\* Line 184: the reference is created unless it exists already.
CreateGitRef ==
    /\ op = "main" /\ pc = "create_git_ref"
    /\ \/ /\ local.branch_name \notin github[local.repo_name].branches
          /\ github' = [github EXCEPT ![local.repo_name].branches =
                           @ \cup {local.branch_name}]
          /\ calls' = Append(calls, [call |-> "create_git_ref",
                                    target |-> local.branch_name,
                                    branch |-> local.branch_name, ok |-> TRUE])
          /\ pc' = "create_catalog"
          /\ UNCHANGED <<local, result>>
       \/ CallRaises("create_git_ref", local.branch_name)
       \/ RefExists
    /\ UNCHANGED <<op, repo, status_vars, now>>

\* Lines 187-196: the entities are built and committed as catalog-info.yaml.
CreateCatalog ==
    /\ op = "main" /\ pc = "create_catalog"
    /\ \/ FileCreated(catalog_path, "probe_workflows")
       \/ CallRaises("create_file", catalog_path)
    /\ UNCHANGED <<op, repo, status_vars, now>>

\* Lines 221-223: .github/workflows is looked up on the default branch; the
\* lookup raises when the directory is absent, or for a transport error.
ProbeWorkflows ==
    /\ op = "main" /\ pc = "probe_workflows"
    /\ \/ /\ repo[local.repo_name].layout = "workflows"
          /\ pc' = "create_workflow"
          /\ UNCHANGED local
       \/ /\ repo[local.repo_name].layout # "workflows"
          /\ pc' = "probe_github"
          /\ UNCHANGED local
       \/ /\ repo[local.repo_name].layout = "workflows"
          /\ local.failures < MaxFailures
          /\ local' = [local EXCEPT !.failures = @ + 1]
          /\ pc' = "probe_github"
    /\ UNCHANGED <<op, repo, result, status_vars, github, calls, now>>

\* Lines 224-226: .github is looked up the same way.
ProbeGithub ==
    /\ op = "main" /\ pc = "probe_github"
    /\ \/ /\ repo[local.repo_name].layout # "none"
          /\ pc' = "create_workflows_readme"
          /\ UNCHANGED local
       \/ /\ repo[local.repo_name].layout = "none"
          /\ pc' = "create_github_readme"
          /\ UNCHANGED local
       \/ /\ repo[local.repo_name].layout # "none"
          /\ local.failures < MaxFailures
          /\ local' = [local EXCEPT !.failures = @ + 1]
          /\ pc' = "create_github_readme"
    /\ UNCHANGED <<op, repo, result, status_vars, github, calls, now>>

\* Lines 227-232.
CreateGithubReadme ==
    /\ op = "main" /\ pc = "create_github_readme"
    /\ \/ FileCreated(".github/README.md", "create_workflows_readme")
       \/ CallRaises("create_file", ".github/README.md")
    /\ UNCHANGED <<op, repo, status_vars, now>>

\* Lines 233-238.
CreateWorkflowsReadme ==
    /\ op = "main" /\ pc = "create_workflows_readme"
    /\ \/ FileCreated(".github/workflows/README.md", "create_workflow")
       \/ CallRaises("create_file", ".github/workflows/README.md")
    /\ UNCHANGED <<op, repo, status_vars, now>>

\* A variant that leaves out branch=branch_name: the file goes to the default
\* branch.
OnBase_CreateWorkflow ==
    /\ op = "main" /\ pc = "create_workflow"
    /\ github' = [github EXCEPT ![local.repo_name].files =
                     @ \cup {<<base_branch, workflow_path>>}]
    /\ calls' = Append(calls, [call |-> "create_file", target |-> workflow_path,
                              branch |-> base_branch, ok |-> TRUE])
    /\ pc' = "create_pull"
    /\ UNCHANGED <<op, repo, result, local, status_vars, now>>

\* Lines 241-246.
CreateWorkflow ==
    /\ op = "main" /\ pc = "create_workflow"
    /\ \/ FileCreated(workflow_path, "create_pull")
       \/ CallRaises("create_file", workflow_path)
    /\ UNCHANGED <<op, repo, status_vars, now>>

\* Lines 271-276: pull requests and issues of a repository share one number
\* sequence.
CreatePull ==
    /\ op = "main" /\ pc = "create_pull"
    /\ \/ LET g == github[local.repo_name]
              number == Len(g.pulls) + Len(g.issues) + 1
          IN  /\ github' = [github EXCEPT ![local.repo_name].pulls =
                               Append(@, [number |-> number,
                                          head |-> local.branch_name,
                                          base |-> base_branch,
                                          state |-> "open"])]
              /\ local' = [local EXCEPT !.pr = number]
              /\ calls' = Append(calls, [call |-> "create_pull",
                                        target |-> base_branch,
                                        branch |-> local.branch_name, ok |-> TRUE])
              /\ pc' = "create_issue"
              /\ UNCHANGED result
       \/ CallRaises("create_pull", base_branch)
    /\ UNCHANGED <<op, repo, status_vars, now>>

\* Lines 293-299: the issue names the pull request; the pair is returned to
\* the loop of main.
CreateIssue ==
    /\ op = "main" /\ pc = "create_issue"
    /\ \/ LET g == github[local.repo_name]
              number == Len(g.pulls) + Len(g.issues) + 1
          IN  /\ github' = [github EXCEPT ![local.repo_name].issues =
                               Append(@, [number |-> number, pr |-> local.pr,
                                          labels |-> <<marker>>])]
              /\ calls' = Append(calls, [call |-> "create_issue",
                                        target |-> local.pr,
                                        branch |-> local.branch_name, ok |-> TRUE])
              /\ result' = <<local.pr, number>>
              /\ pc' = "loop"
              /\ UNCHANGED local
       \/ CallRaises("create_issue", local.pr)
    /\ UNCHANGED <<op, repo, status_vars, now>>

NextOnboard ==
    \/ StartRun
    \/ NextRepo
    \/ EndRun
    \/ GetBranch
    \/ CreateGitRef
    \/ CreateCatalog
    \/ ProbeWorkflows
    \/ ProbeGithub
    \/ CreateGithubReadme
    \/ CreateWorkflowsReadme
    \/ CreateWorkflow
    \/ CreatePull
    \/ CreateIssue

SpecOnboard == InitOnboard /\ [][NextOnboard]_vars

-----------------------------------------------------------------------------
(* C19 *)

\* The open pull requests of a repository whose head is a branch of the
\* automation.
OpenIntegrationPulls(n) ==
    {k \in 1..Len(github[n].pulls) :
        /\ github[n].pulls[k].state = "open"
        /\ Contains(github[n].pulls[k].head, marker)}

\* C19: over successive runs of main, no repository has more than one open
\* backstage-integration pull request.
C19_OneOpenIntegrationPull ==
    op = "main" => \A n \in DOMAIN github : Cardinality(OpenIntegrationPulls(n)) <= 1

-----------------------------------------------------------------------------
(* C20 *)

\* The mutations of create_pr_and_issue in their fixed order, the two
\* placeholder files between the descriptor and the workflow file.
MutationOrder ==
    <<"create_git_ref", catalog_path, ".github/README.md",
      ".github/workflows/README.md", workflow_path, "create_pull", "create_issue">>

\* The place of a logged call in MutationOrder; get_branch mutates nothing
\* and comes before all of them.
OrderOf(c) ==
    IF c.call = "get_branch" THEN 0
    ELSE LET key == IF c.call = "create_file" THEN c.target ELSE c.call
         IN  CHOOSE i \in 1..Len(MutationOrder) : MutationOrder[i] = key

\* C20: the calls of create_pr_and_issue follow the fixed order; a pull
\* request exists only with both files on its head branch, an issue only with
\* its pull request; every file write targets the new branch, never the base
\* branch; a call that fails is the last one, and the mutations before it
\* stay in place.
C20_FixedMutationOrder ==
    op = "main"
      => /\ \A k \in 1..Len(calls), l \in 1..Len(calls) :
              k < l => OrderOf(calls[k]) < OrderOf(calls[l])
         /\ \A k \in 1..Len(calls) :
              /\ (calls[k].call = "create_pull" /\ calls[k].ok)
                    => /\ \E i \in 1..(k - 1) : calls[i].target = catalog_path /\ calls[i].ok
                       /\ \E i \in 1..(k - 1) : calls[i].target = workflow_path /\ calls[i].ok
              /\ (calls[k].call = "create_issue" /\ calls[k].ok)
                    => \E i \in 1..(k - 1) : calls[i].call = "create_pull" /\ calls[i].ok
              /\ calls[k].call = "create_file"
                    => /\ calls[k].branch = local.branch_name
                       /\ calls[k].branch # base_branch
              /\ ~calls[k].ok => (k = Len(calls) /\ pc \in {"loop", "idle"} /\ result = Raise)
              /\ (calls[k].ok /\ calls[k].call = "create_file")
                    => <<calls[k].branch, calls[k].target>> \in github[local.repo_name].files
              /\ (calls[k].ok /\ calls[k].call = "create_git_ref")
                    => calls[k].target \in github[local.repo_name].branches
         /\ \A n \in DOMAIN github :
              /\ \A f \in github[n].files : f[1] # base_branch /\ f[1] \in github[n].branches
              /\ \A k \in 1..Len(github[n].pulls) :
                   LET pr == github[n].pulls[k]
                   IN  /\ <<pr.head, catalog_path>> \in github[n].files
                       /\ <<pr.head, workflow_path>> \in github[n].files
                       /\ pr.head # base_branch /\ pr.base = base_branch
              /\ \A k \in 1..Len(github[n].issues) :
                   \E i \in 1..Len(github[n].pulls) :
                      /\ github[n].pulls[i].number = github[n].issues[k].pr
                      /\ github[n].pulls[i].number < github[n].issues[k].number

\* A call for a repository without .github made all seven mutations and
\* returned the pull request and the issue.
C20_Witness ==
    /\ op = "main" /\ pc = "loop"
    /\ result # Raise
    /\ [k \in 1..Len(calls) |-> OrderOf(calls[k])] = <<1, 2, 3, 4, 5, 6, 7>>
    /\ \A k \in 1..Len(calls) : calls[k].ok

-----------------------------------------------------------------------------
(* Dashboard: get_repo_status of app.py *)

\* The body of the loop for one repository.  The descriptor lookup only sets
\* fields; the open pull requests are listed whether or not the descriptor
\* was found, and an error of the listing replaces the status.  The Language
\* and Last Updated fields copy repository attributes and are left out.
repo_status(r) ==
    LET found == get_catalog(r) # Raise
        status == [Repository |-> r.name,
                   Status |-> IF found THEN "Onboarded" ELSE "Not Onboarded",
                   HasCatalog |-> IF found THEN "Yes" ELSE "No",
                   PRStatus |-> "N/A", pr |-> 0]
    IN  IF get_pulls(r) = Raise
        THEN [status EXCEPT !.Status = "Error"]
        ELSE LET m == first_marked(get_pulls(r))
             IN  IF m # <<>>
                 THEN [status EXCEPT !.Status = "In Progress",
                                     !.PRStatus = "Open", !.pr = m[1].number]
                 ELSE status

\* for repo in repositories: ... repos_status.append(status)
get_repo_status(repositories) ==
    [i \in 1..Len(repositories) |-> repo_status(repositories[i])]

InitDashboard ==
    /\ InitStatus /\ IdleRemote
    /\ op = "dashboard"
    /\ repo = "none"
    /\ pc = "call"
    /\ result = "none"

GetRepoStatus ==
    /\ op = "dashboard" /\ pc = "call"
    /\ result' = get_repo_status(repos)
    /\ pc' = "return"
    /\ UNCHANGED <<op, repo, status_vars, remote_vars>>

\* The dashboard and the report are both run on the organization, in either
\* order.
NextDashboard ==
    \/ GetRepoStatus
    \/ GenerateStatusReport

SpecDashboard == InitDashboard /\ [][NextDashboard]_vars

-----------------------------------------------------------------------------
(* C21 *)

\* C21: get_repo_status and generate_status_report give every repository the
\* same status, whatever the state of the repository.
C21_DashboardAgreesWithReport ==
    (op = "dashboard" /\ pc = "return" /\ reports # <<>>)
        => \A i \in 1..Len(repos) : result[i].Status = CallLines(1)[i].status

-----------------------------------------------------------------------------
(* C22 *)

\* C22: in the list create_catalog_entities returns for a repository, no two
\* descriptors have the same kind and the same name.
C22_UniqueKindAndName ==
    (op = "entities" /\ pc = "return")
        => \A k \in 1..Len(result), l \in 1..Len(result) :
              (result[k].kind = result[l].kind /\ result[k].name = result[l].name)
                 => k = l

====
